---- MODULE Spec2Model ----
(***************************************************************************)
(* Model of project_management/src/create_project.py: the name sanitizer,  *)
(* the existence probe, the group/project create operations, the release   *)
(* structure and the traversal visitor driven by main().                   *)
(*                                                                         *)
(* A Python str is a sequence of one-character strings.  A character that  *)
(* is not ASCII is written by its code point ("U+00E9" is e-acute).        *)
(***************************************************************************)
EXTENDS Integers, Sequences, FiniteSets, TLC

VARIABLES
    DRYRUN,           \* the module-level dry-run flag
    remote,           \* the remote platform: [groups, projects]
    fault,            \* how the remote answers a lookup: "none", "api500", "conn"
    project_list,     \* the documents of the input stream
    bad_doc,          \* the number of the first malformed document, 0 for none
    run,              \* which run of the pipeline this is
    doc,              \* main()'s position in project_list
    pc,               \* where the run is
    current_project,  \* the visitor's __current_project
    cidx,             \* visit_project's position in the center list
    invocations,      \* calls of the create operations made by this run
    remote_calls,     \* calls on the remote client made by this run
    logs,             \* logging records of this run
    exc,              \* the exception that ended this run, or "none"
    finished,         \* summaries of the runs that ended before this one
    san,              \* a sanitize_name call and its result
    probe             \* a flywheel_path_exists call and its result

vars == <<DRYRUN, remote, fault, project_list, bad_doc, run, doc, pc, current_project,
          cidx, invocations, remote_calls, logs, exc, finished, san, probe>>

pipeline_vars == <<DRYRUN, remote, fault, project_list, bad_doc, run, doc, pc,
                   current_project, cidx, invocations, remote_calls, logs,
                   exc, finished>>

(***************************************************************************)
(* Bounds of the model.                                                    *)
(***************************************************************************)
MaxLen == 3          \* length of the names drawn over the whole alphabet
MaxNameLen == 66     \* length of the longest label drawn
MaxCenters == 2      \* centers of a project
MaxDatatypes == 1    \* datatypes of a project
MaxRuns == 2         \* runs of the pipeline against one remote

(***************************************************************************)
(* Python values.                                                          *)
(***************************************************************************)
None == "<None>"
NoArg == "<missing>"     \* a parameter the call does not pass
Client == "<flywheel.Client>"

UpperLetters == <<"A","B","C","D","E","F","G","H","I","J","K","L","M",
                  "N","O","P","Q","R","S","T","U","V","W","X","Y","Z">>
LowerLetters == <<"a","b","c","d","e","f","g","h","i","j","k","l","m",
                  "n","o","p","q","r","s","t","u","v","w","x","y","z">>
Digits == {"0","1","2","3","4","5","6","7","8","9"}

Range(s) == {s[i] : i \in DOMAIN s}

\* str.lower() on one character
lower_char(c) ==
    IF \E i \in DOMAIN UpperLetters : UpperLetters[i] = c
    THEN LowerLetters[CHOOSE i \in DOMAIN UpperLetters : UpperLetters[i] = c]
    ELSE IF c = "U+00C9" THEN "U+00E9" ELSE c

\* str.upper() on one character
upper_char(c) ==
    IF \E i \in DOMAIN LowerLetters : LowerLetters[i] = c
    THEN UpperLetters[CHOOSE i \in DOMAIN LowerLetters : LowerLetters[i] = c]
    ELSE IF c = "U+00E9" THEN "U+00C9" ELSE c

\* str.lower()
lower(s) == [i \in DOMAIN s |-> lower_char(s[i])]

\* str.capitalize(): first character upper-cased, the rest lower-cased
capitalize(s) == [i \in DOMAIN s |-> IF i = 1 THEN upper_char(s[i]) ELSE lower_char(s[i])]

\* str.isalnum() on one character: Unicode letters and digits, not only ASCII
isalnum(c) ==
    \/ c \in Range(UpperLetters) \cup Range(LowerLetters) \cup Digits
    \/ c \in {"U+00E9", "U+00C9", "U+00B2"}

\* str.replace(old, new) for one-character old and new
replace(s, old, new) == [i \in DOMAIN s |-> IF s[i] = old THEN new ELSE s[i]]

\* s[:n]
slice_to(s, n) == IF Len(s) <= n THEN s ELSE SubSeq(s, 1, n)

RECURSIVE keep(_, _)
\* the characters c of s, in order, for which ok[c] holds
keep(s, ok) ==
    IF s = <<>> THEN <<>>
    ELSE (IF Head(s) \in ok THEN <<Head(s)>> ELSE <<>>) \o keep(Tail(s), ok)

MaxLabel == 64

\* the mutant of group_id_chars: a character that is not allowed is replaced
\* by a space instead of being dropped
group_id_chars_blanked(modname) ==
    [i \in DOMAIN modname |->
        IF isalnum(modname[i]) \/ modname[i] \in {"-", "_"} THEN modname[i] ELSE " "]

\* the loop of lines 47-48: keep c when c.isalnum() or c in ['-','_']
group_id_chars(modname) ==
    keep(modname, {c \in Range(modname) : isalnum(c) \/ c \in {"-", "_"}})

\* the mutant of sanitize_name: the label is cut one character too late
sanitize_name_uncut(name, groupid) ==
    IF groupid
    THEN group_id_chars(replace(lower(name), " ", "_"))
    ELSE slice_to(name, MaxLabel + 1)

\* sanitize_name(name, groupid): the value returned
sanitize_name(name, groupid) ==
    IF groupid
    THEN group_id_chars(replace(lower(name), " ", "_"))
    ELSE slice_to(name, MaxLabel)

\* sanitize_name(name, groupid): whether the "changed from" record is logged
sanitize_logged(name, groupid) == sanitize_name(name, groupid) /= name

(***************************************************************************)
(* The remote platform.  A group is known under its id; a project is known *)
(* under the id of its group and its label, which is what add_project is    *)
(* given and what a "<group>/<project>" path of lookup names.              *)
(***************************************************************************)
HasSlash(p) == \E i \in DOMAIN p : p[i] = "/"
SlashAt(p) == CHOOSE i \in DOMAIN p : p[i] = "/" /\ \A j \in 1..(i-1) : p[j] /= "/"
GroupPart(p) == IF HasSlash(p) THEN SubSeq(p, 1, SlashAt(p) - 1) ELSE p
ProjectPart(p) == SubSeq(p, SlashAt(p) + 1, Len(p))

\* whether fw.lookup(fwpath) finds a group or a group/project
resolves(fwpath, rem) ==
    IF HasSlash(fwpath)
    THEN <<GroupPart(fwpath), ProjectPart(fwpath)>> \in rem.projects
    ELSE fwpath \in rem.groups

\* the answer of fw.lookup(fwpath): a container, an ApiException with its
\* status, or an error that is no ApiException
lookup(fwpath, rem) ==
    IF fault = "conn" THEN [kind |-> "Error", status |-> 0]
    ELSE IF fault = "api500" THEN [kind |-> "ApiException", status |-> 500]
    ELSE IF resolves(fwpath, rem) THEN [kind |-> "ok", status |-> 200]
    ELSE [kind |-> "ApiException", status |-> 404]

\* fw.add_group(flywheel.Group(group_id, group_label))
add_group(group_id, rem) == [rem EXCEPT !.groups = @ \cup {group_id}]

\* group.add_project(label=project_label)
add_project(group_id, project_label, rem) ==
    [rem EXCEPT !.projects = @ \cup {<<group_id, project_label>>}]

(***************************************************************************)
(* A call works on a world w = [remote, rcalls, inv, logs] and ends with a *)
(* result [w, exc, ret]: the world it leaves, the exception it raised (or  *)
(* "none") and the value it returned.                                      *)
(***************************************************************************)
Ok(w, ret) == [w |-> w, exc |-> "none", ret |-> ret]
Raise(w, e) == [w |-> w, exc |-> e, ret |-> None]
Log(w, level, msg) == [w EXCEPT !.logs = Append(@, <<level, msg>>)]
RemoteCall(w, rec) == [w EXCEPT !.rcalls = Append(@, rec)]
\* a call of a create operation is recorded when it is made, with the
\* arguments it passes, whether or not the call then binds its parameters
Invoke(w, rec) == [w EXCEPT !.inv = Append(@, rec)]
LogChanged(w, name, groupid) ==
    IF sanitize_logged(name, groupid) THEN Log(w, "info", "changed from") ELSE w

\* the mutant of flywheel_path_exists: every ApiException is taken as not found
flywheel_path_exists_any_status(fwpath, fw, w) ==
    IF fw = NoArg THEN Raise(w, "TypeError")
    ELSE LET a == lookup(fwpath, w.remote)
             w1 == RemoteCall(w, [call |-> "lookup", path |-> fwpath, answer |-> a])
         IN  IF a.kind = "Error" THEN Raise(w1, "Error")
             ELSE IF a.kind = "ApiException" THEN Ok(w1, FALSE)
             ELSE Ok(w1, TRUE)

\* flywheel_path_exists(fwpath, fw): a call without fw raises TypeError; an
\* ApiException whose status is not 404 is caught and falls through to
\* "return True"; an error that is no ApiException propagates
flywheel_path_exists(fwpath, fw, w) ==
    IF fw = NoArg THEN Raise(w, "TypeError")
    ELSE LET a == lookup(fwpath, w.remote)
             w1 == RemoteCall(w, [call |-> "lookup", path |-> fwpath, answer |-> a])
         IN  IF a.kind = "Error" THEN Raise(w1, "Error")
             ELSE IF a.kind = "ApiException" /\ a.status = 404 THEN Ok(w1, FALSE)
             ELSE Ok(w1, TRUE)

\* create_flywheel_group(*, group_label, group_id, fw).  fw is a required
\* keyword-only parameter: a call that does not pass it raises TypeError.
\* Line 91 calls flywheel_path_exists(group_id) without its second argument.
create_flywheel_group(group_label, group_id, fw, w) ==
    LET w0 == Invoke(w, [op |-> "create_flywheel_group", label |-> group_label,
                         id |-> group_id, fw |-> fw])
    IN
    IF fw = NoArg THEN Raise(w0, "TypeError")
    ELSE
    LET label == sanitize_name(group_label, FALSE)
        gid == sanitize_name(group_id, TRUE)
        w1 == LogChanged(LogChanged(w0, group_label, FALSE), group_id, TRUE)
        p == flywheel_path_exists(gid, NoArg, w1)
    IN
    IF p.exc /= "none" THEN p
    ELSE IF p.ret THEN Ok(Log(p.w, "info", "group already exists"), gid)
    ELSE
    LET w2 == Log(p.w, "info", "Creating group")
    IN
    IF DRYRUN THEN Ok(w2, gid)
    ELSE
    LET w3 == RemoteCall(w2, [call |-> "add_group", id |-> gid, label |-> label])
    IN  Ok(Log([w3 EXCEPT !.remote = add_group(gid, @)], "info", "success"), gid)

\* create_flywheel_project(*, group_id, project_id, project_label, fw).
\* Line 126 calls flywheel_path_exists(project_path) without its second argument.
create_flywheel_project(group_id, project_id, project_label, fw, w) ==
    LET w0 == Invoke(w, [op |-> "create_flywheel_project", group |-> group_id,
                         id |-> project_id, label |-> project_label, fw |-> fw])
    IN
    IF fw = NoArg THEN Raise(w0, "TypeError")
    ELSE
    LET label == sanitize_name(project_label, FALSE)
        w1 == LogChanged(w0, project_label, FALSE)
        project_path == group_id \o <<"/">> \o project_id
        project_ref == <<"f","w",":","/","/">> \o project_path
        p == flywheel_path_exists(project_path, NoArg, w1)
    IN
    IF p.exc /= "none" THEN p
    ELSE IF p.ret THEN Ok(Log(p.w, "info", "project already exists"), project_ref)
    ELSE
    LET w2 == Log(p.w, "info", "Creating project")
    IN
    IF DRYRUN THEN Ok(w2, project_ref)
    ELSE
    LET w3 == RemoteCall(w2, [call |-> "get_group", id |-> group_id])
    IN
    IF group_id \notin w3.remote.groups THEN Raise(w3, "ApiException")
    ELSE
    LET w4 == RemoteCall(w3, [call |-> "add_project", group |-> group_id,
                              label |-> label])
    IN  Ok([w4 EXCEPT !.remote = add_project(group_id, label, @)], project_ref)

(***************************************************************************)
(* The domain model (common.src.projects.project): a project is            *)
(* [name, centers, datatypes, published, primary], a center [name, active].*)
(***************************************************************************)
\* convert_to_slug(name): lower case, spaces to dashes, other punctuation dropped
convert_to_slug(name) ==
    LET dashed == replace(lower(name), " ", "-")
    IN  keep(dashed, {c \in Range(dashed) : isalnum(c) \/ c \in {"-", "_"}})

\* Project.is_primary()
is_primary(project) == project.primary

\* Project.is_published()
is_published(project) == project.published

\* Center.is_active()
is_active(center) == center.active

\* the visitor's __current_project: unset, or one project
NoProject == <<>>

\* create_release(project)
create_release(project, w) ==
    LET g == create_flywheel_group(project.name \o <<" ","R","e","l","e","a","s","e">>,
                                   <<"r","e","l","e","a","s","e","-">>
                                       \o convert_to_slug(project.name),
                                   NoArg, w)
    IN  IF g.exc /= "none" THEN g
        ELSE create_flywheel_project(g.ret,
                 <<"m","a","s","t","e","r","-","p","r","o","j","e","c","t">>,
                 <<"M","a","s","t","e","r"," ","P","r","o","j","e","c","t">>,
                 NoArg, g.w)

\* the mutant of __build_project_id: the suffix goes to the primary project
build_project_id_swapped(prefix, cur) ==
    IF ~is_primary(cur) THEN prefix
    ELSE prefix \o <<"-">> \o convert_to_slug(cur.name)

\* FlywheelProjectArtifactCreator.__build_project_id(prefix)
build_project_id(prefix, cur) ==
    IF is_primary(cur) THEN prefix
    ELSE prefix \o <<"-">> \o convert_to_slug(cur.name)

\* FlywheelProjectArtifactCreator.__create_accepted(group_id)
create_accepted(group_id, cur, w) ==
    create_flywheel_project(group_id,
        build_project_id(<<"a","c","c","e","p","t","e","d">>, cur),
        cur.name \o <<" ","A","c","c","e","p","t","e","d">>,
        NoArg, w)

RECURSIVE create_ingest_from(_, _, _, _)
\* the loop of __create_ingest from datatype number k on
create_ingest_from(k, group_id, cur, w) ==
    IF k > Len(cur.datatypes) THEN Ok(w, None)
    ELSE
    LET datatype == cur.datatypes[k]
        r == create_flywheel_project(group_id,
                 build_project_id(<<"i","n","g","e","s","t","-">> \o lower(datatype), cur),
                 cur.name \o <<" ">> \o capitalize(datatype)
                     \o <<" ","I","n","g","e","s","t">>,
                 NoArg, w)
    IN  IF r.exc /= "none" THEN r
        ELSE create_ingest_from(k + 1, group_id, cur, r.w)

\* FlywheelProjectArtifactCreator.__create_ingest(group_id)
create_ingest(group_id, cur, w) == create_ingest_from(1, group_id, cur, w)

\* the mutant of visit_center: the guard logs the error and does not return
visit_center_no_return(center, marker, w) ==
    LET w0 == IF marker = NoProject THEN Log(w, "error", "No project given") ELSE w
        g == create_flywheel_group(center.name, convert_to_slug(center.name), NoArg, w0)
    IN
    IF g.exc /= "none" THEN g
    ELSE IF marker = NoProject THEN Raise(g.w, "AttributeError")
    ELSE
    LET cur == marker[1]
        i == IF is_active(center)
             THEN IF cur.datatypes /= <<>>
                  THEN create_ingest(g.ret, cur, g.w)
                  ELSE Ok(Log(g.w, "warning", "no datatypes given"), None)
             ELSE Ok(Log(g.w, "info", "inactive center"), None)
    IN
    IF i.exc /= "none" THEN i
    ELSE create_accepted(g.ret, cur, i.w)

\* FlywheelProjectArtifactCreator.visit_center(center), with the marker as it is
visit_center(center, marker, w) ==
    IF marker = NoProject THEN Ok(Log(w, "error", "No project given"), None)
    ELSE
    LET cur == marker[1]
        g == create_flywheel_group(center.name, convert_to_slug(center.name), NoArg, w)
    IN
    IF g.exc /= "none" THEN g
    ELSE
    LET i == IF is_active(center)
             THEN IF cur.datatypes /= <<>>
                  THEN create_ingest(g.ret, cur, g.w)
                  ELSE Ok(Log(g.w, "warning", "no datatypes given"), None)
             ELSE Ok(Log(g.w, "info", "inactive center"), None)
    IN
    IF i.exc /= "none" THEN i
    ELSE create_accepted(g.ret, cur, i.w)

(***************************************************************************)
(* The inputs drawn.                                                       *)
(***************************************************************************)
BoundedSeq(S, n) == UNION {[1..k -> S] : k \in 0..n}

ADRC == <<"A","D","R","C">>
MyStudy == <<"M","y"," ","S","t","u","d","y">>
SiteA == <<"S","i","t","e"," ","A">>
SiteB == <<"S","i","t","e"," ","B">>
form == <<"f","o","r","m">>
DICOM == <<"D","I","C","O","M">>

CenterPool == {[name |-> SiteA, active |-> TRUE],
               [name |-> SiteA, active |-> FALSE],
               [name |-> SiteB, active |-> FALSE]}

Projects ==
    [name : {ADRC, MyStudy},
     centers : BoundedSeq(CenterPool, MaxCenters),
     datatypes : BoundedSeq({form, DICOM}, MaxDatatypes),
     published : BOOLEAN,
     primary : BOOLEAN]

\* the project of the end-to-end scenario
ScenarioProject ==
    [name |-> ADRC, centers |-> <<[name |-> SiteA, active |-> TRUE]>>,
     datatypes |-> <<form>>, published |-> FALSE, primary |-> TRUE]

\* a project with nothing to create
BareProject ==
    [name |-> MyStudy, centers |-> <<>>, datatypes |-> <<>>,
     published |-> FALSE, primary |-> FALSE]

\* the YAML streams: one document, or two
DocLists ==
    {<<p>> : p \in Projects}
        \cup {<<p, q>> : p \in Projects, q \in {ScenarioProject, BareProject}}

EmptyRemote == [groups |-> {}, projects |-> {}]

site_a == <<"s","i","t","e","-","a">>
accepted == <<"a","c","c","e","p","t","e","d">>

InitialRemotes ==
    {EmptyRemote,
     [groups |-> {site_a}, projects |-> {<<site_a, accepted>>}]}

World == [remote |-> remote, rcalls |-> remote_calls, inv |-> invocations,
          logs |-> logs]

Commit(r) ==
    /\ remote' = r.w.remote
    /\ remote_calls' = r.w.rcalls
    /\ invocations' = r.w.inv
    /\ logs' = r.w.logs

IdleSan == [pc |-> "idle", name |-> <<>>, out |-> <<>>, again |-> <<>>,
            logged |-> FALSE]
IdleProbe == [pc |-> "idle", path |-> <<>>, ret |-> FALSE, exc |-> "none"]

(***************************************************************************)
(* The pipeline: main() and the visitor.                                   *)
(***************************************************************************)
\* DRYRUN is True in the source (line 24); False is the flag set for a live run
Init ==
    /\ DRYRUN \in BOOLEAN
    /\ remote \in InitialRemotes
    /\ fault = "none"
    /\ project_list \in DocLists
    /\ bad_doc \in 0..Len(project_list)
    /\ run = 1
    /\ doc = 1
    /\ pc = "load"
    /\ current_project = NoProject
    /\ cidx = 0
    /\ invocations = <<>>
    /\ remote_calls = <<>>
    /\ logs = <<>>
    /\ exc = "none"
    /\ finished = <<>>
    /\ san = IdleSan
    /\ probe = IdleProbe

\* the mutant of main_load: the documents are parsed one by one as the loop
\* of line 291 comes to them, so only the first is parsed before the visits
main_load_lazy ==
    /\ pc = "load"
    /\ IF bad_doc = 1
       THEN /\ pc' = "raised"
            /\ exc' = "YAMLError"
            /\ logs' = Append(logs, <<"traceback", "YAMLError, line and column">>)
       ELSE /\ pc' = "main"
            /\ UNCHANGED <<exc, logs>>
    /\ UNCHANGED <<DRYRUN, remote, fault, project_list, bad_doc, run, doc,
                   current_project, cidx, invocations, remote_calls, finished,
                   san, probe>>

\* main(), lines 277-288.  yaml.safe_load_all returns a generator and parses
\* nothing when it is called (line 279), so the except clause of lines
\* 280-286 is never entered.  list(project_gen), line 288, in the else
\* clause, parses every document: a malformed one raises a YAMLError there,
\* which nothing catches, so the interpreter prints the traceback, whose
\* last line carries the error with its line and column, and exits with 1.
main_load ==
    /\ pc = "load"
    /\ IF bad_doc > 0
       THEN /\ pc' = "raised"
            /\ exc' = "YAMLError"
            /\ logs' = Append(logs, <<"traceback", "YAMLError, line and column">>)
       ELSE /\ pc' = "main"
            /\ UNCHANGED <<exc, logs>>
    /\ UNCHANGED <<DRYRUN, remote, fault, project_list, bad_doc, run, doc,
                   current_project, cidx, invocations, remote_calls, finished,
                   san, probe>>

\* the exit status of the process: 1 after an uncaught exception
exit_code == IF pc = "raised" THEN 1 ELSE 0

\* main(), lines 291-293, and visit_project, line 245: the next document's
\* project becomes the current project
visit_project_enter ==
    /\ pc = "main"
    /\ doc <= Len(project_list)
    /\ current_project' = <<project_list[doc]>>
    /\ cidx' = 1
    /\ pc' = "centers"
    /\ UNCHANGED <<DRYRUN, remote, fault, project_list, bad_doc, run, doc, invocations,
                   remote_calls, logs, exc, finished, san, probe>>

\* visit_project, lines 247-249: center.apply(self) for the next center
visit_project_center ==
    /\ pc = "centers"
    /\ current_project[1].centers /= <<>>
    /\ cidx <= Len(current_project[1].centers)
    /\ LET r == visit_center(current_project[1].centers[cidx], current_project, World)
       IN  /\ Commit(r)
           /\ exc' = r.exc
           /\ IF r.exc /= "none"
              THEN pc' = "raised" /\ cidx' = cidx
              ELSE /\ cidx' = cidx + 1
                   /\ pc' = IF cidx = Len(current_project[1].centers)
                            THEN "exit" ELSE "centers"
    /\ UNCHANGED <<DRYRUN, fault, project_list, bad_doc, run, doc, current_project,
                   finished, san, probe>>

\* the mutant of visit_project_no_centers: the record is logged at info level
visit_project_no_centers_info ==
    /\ pc = "centers"
    /\ current_project[1].centers = <<>>
    /\ logs' = Append(logs, <<"info", "no centers given">>)
    /\ pc' = "exit"
    /\ UNCHANGED <<DRYRUN, remote, fault, project_list, bad_doc, run, doc, current_project,
                   cidx, invocations, remote_calls, exc, finished, san, probe>>

\* visit_project, lines 250-253: no centers given
visit_project_no_centers ==
    /\ pc = "centers"
    /\ current_project[1].centers = <<>>
    /\ logs' = Append(logs, <<"warning", "no centers given">>)
    /\ pc' = "exit"
    /\ UNCHANGED <<DRYRUN, remote, fault, project_list, bad_doc, run, doc, current_project,
                   cidx, invocations, remote_calls, exc, finished, san, probe>>

\* visit_project, lines 255-256 and 261: the release structure, then the
\* marker is cleared, unless create_release raised
visit_project_release ==
    /\ pc = "exit"
    /\ is_published(current_project[1])
    /\ LET r == create_release(current_project[1], World)
       IN  /\ Commit(r)
           /\ exc' = r.exc
           /\ IF r.exc /= "none"
              THEN pc' = "raised" /\ UNCHANGED <<current_project, doc>>
              ELSE pc' = "main" /\ current_project' = NoProject /\ doc' = doc + 1
    /\ UNCHANGED <<DRYRUN, fault, project_list, bad_doc, run, cidx, finished, san, probe>>

\* visit_project, lines 257-261: no release project, the marker is cleared
visit_project_no_release ==
    /\ pc = "exit"
    /\ ~is_published(current_project[1])
    /\ logs' = Append(logs, <<"info", "no release project">>)
    /\ current_project' = NoProject
    /\ doc' = doc + 1
    /\ pc' = "main"
    /\ UNCHANGED <<DRYRUN, remote, fault, project_list, bad_doc, run, cidx, invocations,
                   remote_calls, exc, finished, san, probe>>

\* main() returns after the last document
main_return ==
    /\ pc = "main"
    /\ doc > Len(project_list)
    /\ pc' = "done"
    /\ UNCHANGED <<DRYRUN, remote, fault, project_list, bad_doc, run, doc, current_project,
                   cidx, invocations, remote_calls, logs, exc, finished, san, probe>>

\* the script is started again on the same input, against the remote as the
\* run before left it
next_run ==
    /\ pc \in {"done", "raised"}
    /\ run < MaxRuns
    /\ finished' = Append(finished, [exc |-> exc, inv |-> invocations,
                                     rcalls |-> remote_calls, logs |-> logs,
                                     dryrun |-> DRYRUN])
    /\ run' = run + 1
    /\ doc' = 1
    /\ pc' = "load"
    /\ current_project' = NoProject
    /\ cidx' = 0
    /\ invocations' = <<>>
    /\ remote_calls' = <<>>
    /\ logs' = <<>>
    /\ exc' = "none"
    /\ UNCHANGED <<DRYRUN, remote, fault, project_list, bad_doc, san, probe>>

Next ==
    \/ main_load
    \/ visit_project_enter
    \/ visit_project_center
    \/ visit_project_no_centers
    \/ visit_project_release
    \/ visit_project_no_release
    \/ main_return
    \/ next_run

Spec == Init /\ [][Next]_vars

(***************************************************************************)
(* sanitize_name applied to drawn names.                                   *)
(***************************************************************************)
SanAlphabet == {"a", "A", "1", " ", "-", "_", "!", "U+00E9", "U+00C9"}

SanNames ==
    BoundedSeq(SanAlphabet, MaxLen)
        \cup {[i \in 1..n |-> "x"] : n \in 0..MaxNameLen}

PipelineIdle ==
    /\ DRYRUN = TRUE
    /\ project_list = <<>>
    /\ bad_doc = 0
    /\ run = 1
    /\ doc = 1
    /\ pc = "idle"
    /\ current_project = NoProject
    /\ cidx = 0
    /\ invocations = <<>>
    /\ remote_calls = <<>>
    /\ logs = <<>>
    /\ exc = "none"
    /\ finished = <<>>

InitSan ==
    /\ PipelineIdle
    /\ remote = EmptyRemote
    /\ fault = "none"
    /\ probe = IdleProbe
    /\ san \in [pc : {"start"}, name : SanNames, out : {<<>>}, again : {<<>>},
                logged : {FALSE}]

\* sanitize_name(name, groupid=True)
sanitize_id ==
    /\ san.pc = "start"
    /\ san' = [san EXCEPT !.pc = "id",
                          !.out = sanitize_name(san.name, TRUE),
                          !.logged = sanitize_logged(san.name, TRUE)]
    /\ UNCHANGED <<pipeline_vars, probe>>

\* sanitize_name applied to the identifier it returned
sanitize_id_again ==
    /\ san.pc = "id"
    /\ san' = [san EXCEPT !.pc = "id_again",
                          !.again = sanitize_name(san.out, TRUE)]
    /\ UNCHANGED <<pipeline_vars, probe>>

\* sanitize_name(name), groupid=False
sanitize_label ==
    /\ san.pc = "start"
    /\ san' = [san EXCEPT !.pc = "label",
                          !.out = sanitize_name(san.name, FALSE),
                          !.logged = sanitize_logged(san.name, FALSE)]
    /\ UNCHANGED <<pipeline_vars, probe>>

NextSan == sanitize_id \/ sanitize_id_again \/ sanitize_label

SpecSan == InitSan /\ [][NextSan]_vars

(***************************************************************************)
(* flywheel_path_exists applied to drawn paths, remotes and lookup faults. *)
(***************************************************************************)
ADRCAccepted == ADRC \o <<" ","A","c","c","e","p","t","e","d">>
site_b == <<"s","i","t","e","-","b">>

ProbeRemotes ==
    [groups : SUBSET {site_a, site_b},
     projects : SUBSET {<<site_a, accepted>>, <<site_a, ADRCAccepted>>}]

ProbePaths ==
    {site_a, site_b, <<>>,
     site_a \o <<"/">> \o accepted,
     site_a \o <<"/">> \o ADRCAccepted,
     site_b \o <<"/">> \o accepted}

Faults == {"none", "api500", "conn"}

InitProbe ==
    /\ PipelineIdle
    /\ remote \in ProbeRemotes
    /\ fault \in Faults
    /\ san = IdleSan
    /\ probe \in [pc : {"start"}, path : ProbePaths, ret : {FALSE}, exc : {"none"}]

\* flywheel_path_exists(fwpath, fw) called with a client
probe_call ==
    /\ probe.pc = "start"
    /\ LET r == flywheel_path_exists(probe.path, Client, World)
       IN  /\ Commit(r)
           /\ probe' = [probe EXCEPT !.pc = "done",
                                     !.exc = r.exc,
                                     !.ret = IF r.exc = "none" THEN r.ret ELSE FALSE]
    /\ UNCHANGED <<DRYRUN, fault, project_list, bad_doc, run, doc, pc, current_project,
                   cidx, exc, finished, san>>

NextProbe == probe_call

SpecProbe == InitProbe /\ [][NextProbe]_vars

(***************************************************************************)
(* __create_accepted and __create_ingest applied to a visitor whose marker *)
(* holds a drawn project.                                                  *)
(***************************************************************************)
InitIds ==
    /\ DRYRUN \in BOOLEAN
    /\ remote \in InitialRemotes
    /\ fault = "none"
    /\ project_list = <<>>
    /\ bad_doc = 0
    /\ run = 1
    /\ doc = 1
    /\ pc = "method"
    /\ current_project \in {<<p>> : p \in Projects}
    /\ cidx = 0
    /\ invocations = <<>>
    /\ remote_calls = <<>>
    /\ logs = <<>>
    /\ exc = "none"
    /\ finished = <<>>
    /\ san = IdleSan
    /\ probe = IdleProbe

\* self.__create_accepted(group_id)
call_create_accepted ==
    /\ pc = "method"
    /\ \E group_id \in {site_a, site_b} :
         LET r == create_accepted(group_id, current_project[1], World)
         IN  Commit(r) /\ exc' = r.exc
    /\ pc' = "accepted"
    /\ UNCHANGED <<DRYRUN, fault, project_list, bad_doc, run, doc, current_project, cidx,
                   finished, san, probe>>

\* self.__create_ingest(group_id)
call_create_ingest ==
    /\ pc = "method"
    /\ \E group_id \in {site_a, site_b} :
         LET r == create_ingest(group_id, current_project[1], World)
         IN  Commit(r) /\ exc' = r.exc
    /\ pc' = "ingest"
    /\ UNCHANGED <<DRYRUN, fault, project_list, bad_doc, run, doc, current_project, cidx,
                   finished, san, probe>>

NextIds == call_create_accepted \/ call_create_ingest

SpecIds == InitIds /\ [][NextIds]_vars

(***************************************************************************)
(* Properties.                                                             *)
(***************************************************************************)
StartsWith(s, p) == Len(s) >= Len(p) /\ SubSeq(s, 1, Len(p)) = p

GroupCalls(inv) == {i \in DOMAIN inv : inv[i].op = "create_flywheel_group"}
ProjectCalls(inv) == {i \in DOMAIN inv : inv[i].op = "create_flywheel_project"}
IngestCalls(inv) ==
    {i \in ProjectCalls(inv) : StartsWith(inv[i].id, <<"i","n","g","e","s","t","-">>)}
Mutations(rc) == {i \in DOMAIN rc : rc[i].call \in {"add_group", "add_project"}}
Lookups(rc) == {i \in DOMAIN rc : rc[i].call = "lookup"}

\* the path a create operation was asked for
PathOf(c) ==
    IF c.op = "create_flywheel_group" THEN sanitize_name(c.id, TRUE)
    ELSE c.group \o <<"/">> \o c.id

RunEnded == pc \in {"done", "raised"}

\* the visit of the first document's project has just ended
FirstVisitEnded ==
    /\ project_list /= <<>>
    /\ \/ pc = "raised" /\ doc = 1 /\ exc /= "YAMLError"
       \/ pc = "main" /\ doc = 2

\* visit_center of the first center of the first document has just ended
FirstCenterEnded ==
    /\ project_list /= <<>>
    /\ doc = 1
    /\ current_project /= NoProject
    /\ current_project[1].centers /= <<>>
    /\ \/ pc = "raised" /\ cidx = 1
       \/ pc \in {"centers", "exit"} /\ cidx = 2

release_id(project) ==
    <<"r","e","l","e","a","s","e","-">> \o convert_to_slug(project.name)
release_label(project) == project.name \o <<" ","R","e","l","e","a","s","e">>
master_project == <<"m","a","s","t","e","r","-","p","r","o","j","e","c","t">>
MasterProjectLabel == <<"M","a","s","t","e","r"," ","P","r","o","j","e","c","t">>

C2_InactiveCenterGetsAccepted ==
    (FirstCenterEnded /\ ~is_active(current_project[1].centers[1])) =>
        /\ IngestCalls(invocations) = {}
        /\ Len(invocations) = 2
        /\ invocations[1].op = "create_flywheel_group"
        /\ invocations[1].id = convert_to_slug(current_project[1].centers[1].name)
        /\ invocations[2].op = "create_flywheel_project"
        /\ invocations[2].id = build_project_id(accepted, current_project[1])

\* C3 as stated: once the visit of a project with zero centers has ended, no
\* create-group call has been made, whatever the published flag, and the
\* warning is logged.
C3_NoGroupCallAtAll ==
    (FirstVisitEnded /\ project_list[1].centers = <<>>) =>
        /\ GroupCalls(invocations) = {}
        /\ \E i \in DOMAIN logs : logs[i] = <<"warning", "no centers given">>

\* C3: once the visit of a project with zero centers has ended, the warning
\* is logged and no create-group call has been made for a center: the only
\* create-group call is the one for the release group, made when and only
\* when the project is published.
C3_NoCenterGroupCall ==
    (FirstVisitEnded /\ project_list[1].centers = <<>>) =>
        /\ \E i \in DOMAIN logs : logs[i] = <<"warning", "no centers given">>
        /\ \A i \in GroupCalls(invocations) :
             /\ is_published(project_list[1])
             /\ invocations[i].id = release_id(project_list[1])
             /\ invocations[i].label = release_label(project_list[1])
        /\ Cardinality(GroupCalls(invocations)) =
               IF is_published(project_list[1]) THEN 1 ELSE 0

C3_Witness ==
    /\ FirstVisitEnded
    /\ project_list[1].centers = <<>>
    /\ is_published(project_list[1])
    /\ project_list[1].datatypes /= <<>>
    /\ Cardinality(GroupCalls(invocations)) = 1

\* C4: once the visit of a published project has ended, exactly one
\* create-group call for the release group (label "<name> Release", id
\* release-<slug>) and exactly one create-project call for master-project /
\* "Master Project" in that group have been made; for an unpublished project
\* neither call has been made.
C4_ReleaseStructure ==
    FirstVisitEnded =>
        LET p == project_list[1]
            rel == {i \in GroupCalls(invocations) :
                       /\ invocations[i].id = release_id(p)
                       /\ invocations[i].label = release_label(p)}
            mas == {i \in ProjectCalls(invocations) :
                       /\ invocations[i].id = master_project
                       /\ invocations[i].label = MasterProjectLabel
                       /\ invocations[i].group = sanitize_name(release_id(p), TRUE)}
        IN  IF is_published(p)
            THEN Cardinality(rel) = 1 /\ Cardinality(mas) = 1
            ELSE rel = {} /\ mas = {}

\* C5: the id __create_accepted passes is "accepted" for the primary project
\* and "accepted-<slug of the project name>" otherwise, and every id
\* __create_ingest passes is "ingest-<datatype lowercased>" with the same
\* suffix rule.
C5_ProjectIdRule ==
    (pc \in {"accepted", "ingest"}) =>
        LET cur == current_project[1]
            suffix == IF cur.primary THEN <<>>
                      ELSE <<"-">> \o convert_to_slug(cur.name)
        IN  /\ pc = "accepted" =>
                /\ Len(invocations) = 1
                /\ invocations[1].id = accepted \o suffix
            /\ pc = "ingest" =>
                \A i \in DOMAIN invocations :
                    invocations[i].id =
                        <<"i","n","g","e","s","t","-">> \o lower(cur.datatypes[i]) \o suffix

C5_Witness ==
    /\ pc = "accepted"
    /\ current_project[1].name = MyStudy
    /\ ~current_project[1].primary
    /\ invocations[1].id =
           <<"a","c","c","e","p","t","e","d","-","m","y","-","s","t","u","d","y">>

expected_scenario_calls ==
    << [op |-> "create_flywheel_group", path |-> site_a, label |-> SiteA],
       [op |-> "create_flywheel_project",
        path |-> site_a \o <<"/","i","n","g","e","s","t","-","f","o","r","m">>,
        label |-> ADRC \o <<" ","F","o","r","m"," ","I","n","g","e","s","t">>],
       [op |-> "create_flywheel_project",
        path |-> site_a \o <<"/">> \o accepted,
        label |-> ADRCAccepted] >>

\* C6: for the primary, unpublished project "ADRC" with the one active center
\* "Site A" and datatypes ["form"], on an empty remote, the run ends normally
\* having made exactly the calls: create group site-a, create project
\* site-a/ingest-form "ADRC Form Ingest", create project site-a/accepted
\* "ADRC Accepted".
C6_Scenario ==
    (/\ run = 1
     /\ RunEnded
     /\ project_list = <<ScenarioProject>>
     /\ bad_doc = 0
     /\ DRYRUN
     /\ remote = EmptyRemote) =>
        /\ pc = "done"
        /\ [i \in DOMAIN invocations |->
               [op |-> invocations[i].op,
                path |-> PathOf(invocations[i]),
                label |-> invocations[i].label]] = expected_scenario_calls

AsciiIdChars == Range(LowerLetters) \cup Digits \cup {"-", "_"}

\* C7: every character of sanitize_name(name, groupid=True) is in [a-z0-9_-].
C7_OnlyIdChars ==
    (san.pc = "id") => Range(san.out) \subseteq AsciiIdChars

\* C8: sanitizing an identifier that sanitize_name(name, groupid=True)
\* returned gives the same identifier.
C8_Idempotent ==
    (san.pc = "id_again") => san.again = san.out

C8_Witness ==
    /\ san.pc = "id_again"
    /\ san.name = <<"A", " ", "!">>
    /\ san.out = <<"a", "_">>
    /\ san.again = <<"a", "_">>

C10_FalseExactlyOnNotFound ==
    (probe.pc = "done") =>
        LET a == remote_calls[1].answer
        IN  /\ (a.kind = "ApiException" /\ a.status = 404) =>
                (probe.exc = "none" /\ probe.ret = FALSE)
            /\ a.kind = "ok" => (probe.exc = "none" /\ probe.ret = TRUE)
            /\ (probe.exc = "none" /\ probe.ret = FALSE) =>
                (a.kind = "ApiException" /\ a.status = 404)

C10_Witness ==
    /\ probe.pc = "done"
    /\ probe.path = site_a \o <<"/">> \o accepted
    /\ <<site_a, accepted>> \notin remote.projects
    /\ site_a \in remote.groups
    /\ remote_calls[1].answer.status = 404
    /\ probe.ret = FALSE

\* C11: when the lookup made by the probe fails with an error other than
\* not-found (an ApiException with status 500, or an error that is no
\* ApiException), the probe raises: it returns no boolean.
C11_OtherErrorsPropagate ==
    (probe.pc = "done") =>
        LET a == remote_calls[1].answer
        IN  (a.kind /= "ok" /\ ~(a.kind = "ApiException" /\ a.status = 404)) =>
                probe.exc /= "none"

OnlyLookups(rc) == \A i \in DOMAIN rc : rc[i].call = "lookup"

\* C12: in a dry run on a well-formed input, the run calls nothing but lookup
\* on the remote (so the remote is left as it was), and every create
\* operation it calls returns its id or reference: the run ends normally.
C12_DryRunOnlyProbes ==
    (DRYRUN /\ bad_doc = 0) =>
        /\ OnlyLookups(remote_calls)
        /\ remote \in InitialRemotes
        /\ exc = "none"

(***************************************************************************)
(* create_flywheel_group and create_flywheel_project called with a client, *)
(* as a caller that passes fw would call them.                             *)
(***************************************************************************)
InitCreate ==
    /\ DRYRUN \in BOOLEAN
    /\ remote \in ProbeRemotes
    /\ fault = "none"
    /\ project_list = <<>>
    /\ bad_doc = 0
    /\ run = 1
    /\ doc = 1
    /\ pc = "idle"
    /\ current_project = NoProject
    /\ cidx = 0
    /\ invocations = <<>>
    /\ remote_calls = <<>>
    /\ logs = <<>>
    /\ exc = "none"
    /\ finished = <<>>
    /\ san = IdleSan
    /\ probe = [pc |-> "start", path |-> <<>>, ret |-> <<>>, exc |-> "none",
                before |-> remote]

\* create_flywheel_group(group_label=..., group_id=..., fw=client)
call_create_group ==
    /\ probe.pc = "start"
    /\ \E group_label \in {SiteA, SiteB}, group_id \in {site_a, SiteA, site_b} :
         LET r == create_flywheel_group(group_label, group_id, Client, World)
         IN  /\ Commit(r)
             /\ probe' = [pc |-> "group",
                          path |-> sanitize_name(group_id, TRUE),
                          ret |-> IF r.exc = "none" THEN r.ret ELSE <<>>,
                          exc |-> r.exc,
                          before |-> remote]
    /\ UNCHANGED <<DRYRUN, fault, project_list, bad_doc, run, doc, pc,
                   current_project, cidx, exc, finished, san>>

\* create_flywheel_project(group_id=..., project_id=..., project_label=..., fw=client)
call_create_project ==
    /\ probe.pc = "start"
    /\ \E group_id \in {site_a, site_b}, project_label \in {accepted, ADRCAccepted} :
         LET r == create_flywheel_project(group_id, accepted, project_label,
                                          Client, World)
         IN  /\ Commit(r)
             /\ probe' = [pc |-> "project",
                          path |-> group_id \o <<"/">> \o accepted,
                          ret |-> IF r.exc = "none" THEN r.ret ELSE <<>>,
                          exc |-> r.exc,
                          before |-> remote]
    /\ UNCHANGED <<DRYRUN, fault, project_list, bad_doc, run, doc, pc,
                   current_project, cidx, exc, finished, san>>

NextCreate == call_create_group \/ call_create_project

SpecCreate == InitCreate /\ [][NextCreate]_vars

IsIngestCall(c) ==
    c.op = "create_flywheel_project" /\ StartsWith(c.id, <<"i","n","g","e","s","t","-">>)
IngestSeq(inv) == SelectSeq(inv, IsIngestCall)
IsCenterGroupCall(c) ==
    c.op = "create_flywheel_group" /\ ~StartsWith(c.id, <<"r","e","l","e","a","s","e","-">>)
CenterGroupSeq(inv) == SelectSeq(inv, IsCenterGroupCall)

\* the number of centers of the current project whose visit has ended
CentersEnded ==
    IF pc = "raised" /\ cidx <= Len(current_project[1].centers) THEN cidx
    ELSE cidx - 1

\* C15: during the visit of the first document's project, the create-group
\* calls made for centers are those of the centers visited so far, in the
\* order of the center list, and once the visit of an active first center
\* has ended exactly one ingest-project call per datatype has been made for
\* it, in the order of the datatype list.
C15_InputOrder ==
    (doc = 1 /\ current_project /= NoProject /\ pc \in {"centers", "exit", "raised"}) =>
        LET cur == current_project[1]
            groups == CenterGroupSeq(invocations)
            ingest == IngestSeq(invocations)
        IN  /\ Len(groups) = CentersEnded
            /\ \A k \in DOMAIN groups :
                   groups[k].id = convert_to_slug(cur.centers[k].name)
            /\ (FirstCenterEnded /\ is_active(cur.centers[1])) =>
                   /\ Len(ingest) = Len(cur.datatypes)
                   /\ \A k \in DOMAIN ingest :
                          ingest[k].id =
                              build_project_id(<<"i","n","g","e","s","t","-">>
                                                   \o lower(cur.datatypes[k]), cur)

\* C17: the current-project marker is unset before the first visit_project
\* and after every visit_project call that has ended, and is the visited
\* project during the visit, its release step included.
C17_MarkerScopedToVisit ==
    /\ pc \in {"load", "main", "done", "raised"} => current_project = NoProject
    /\ pc \in {"centers", "exit"} => current_project = <<project_list[doc]>>

(***************************************************************************)
(* visit_center called on a visitor as it is, its marker unset or set.     *)
(***************************************************************************)
InitVisit ==
    /\ DRYRUN \in BOOLEAN
    /\ remote \in InitialRemotes
    /\ fault = "none"
    /\ project_list = <<>>
    /\ bad_doc = 0
    /\ run = 1
    /\ doc = 1
    /\ pc = "visitor"
    /\ current_project \in {NoProject} \cup {<<p>> : p \in Projects}
    /\ cidx = 0
    /\ invocations = <<>>
    /\ remote_calls = <<>>
    /\ logs = <<>>
    /\ exc = "none"
    /\ finished = <<>>
    /\ san = IdleSan
    /\ probe = [pc |-> "idle", path |-> <<>>, ret |-> FALSE, exc |-> "none",
                before |-> remote]

\* visitor.visit_center(center)
call_visit_center ==
    /\ pc = "visitor"
    /\ \E center \in CenterPool :
         LET r == visit_center(center, current_project, World)
         IN  Commit(r) /\ exc' = r.exc
    /\ pc' = "visited"
    /\ UNCHANGED <<DRYRUN, fault, project_list, bad_doc, run, doc,
                   current_project, cidx, finished, san, probe>>

NextVisit == call_visit_center

SpecVisit == InitVisit /\ [][NextVisit]_vars

\* C16: visit_center called while no current project is set returns without
\* an exception, having logged the error and nothing else, made no remote
\* call and no call of a create operation, and left the remote and the
\* (unset) marker as they were.
C16_GuardWithoutProject ==
    (pc = "visited" /\ current_project = NoProject) =>
        /\ exc = "none"
        /\ logs = << <<"error", "No project given">> >>
        /\ remote_calls = <<>>
        /\ invocations = <<>>
        /\ remote = probe.before

C16_Witness ==
    /\ pc = "visited"
    /\ current_project = NoProject
    /\ logs = << <<"error", "No project given">> >>
    /\ invocations = <<>>

\* No run of the pipeline makes a call on the remote client: every create
\* operation raises TypeError before its probe.
NoRemoteCallInAnyRun ==
    /\ remote_calls = <<>>
    /\ \A i \in DOMAIN finished : finished[i].rcalls = <<>>
    /\ remote \in InitialRemotes

====
